---- MODULE Spec2Model ----
(***************************************************************************)
(* Model of dpui's Tauri backend: the file-backed preset store             *)
(* (src-tauri/src/presets.rs) and the global-hotkey commands               *)
(* (src-tauri/src/hotkeys.rs).                                             *)
(*                                                                         *)
(* Every #[tauri::command] is an async command: Tauri runs each invocation *)
(* as its own task on a multi-threaded runtime, so two invocations may     *)
(* interleave at every access to the shared resources (the preset file,    *)
(* the shortcut registry).  A caller is modelled by a process whose steps  *)
(* are exactly those accesses.                                             *)
(***************************************************************************)
EXTENDS Integers, Sequences, FiniteSets, TLC

\* ------------------------------------------------------------------ bounds

\* Number of uuid::Uuid::new_v4() values drawn in one behaviour.
MaxAdds == 2

\* Number of preset-store commands invoked in one behaviour.
MaxCalls == 2

\* Number of hotkey commands invoked in one behaviour.
MaxHotkeyCalls == 3

\* ------------------------------------------------------------ input domains

Procs == {"c1", "c2"}

\* Option<T>: None is the empty sequence, Some(x) the one-element sequence.
None == <<>>
Some(x) == <<x>>

Names == {"Home", "Work"}
Configs == {"cfgB"}
Timestamps == {"t1"}
\* Shortcut strings a caller may supply ("" is the empty string).
HotkeyStrings == {"Cmd+1", ""}
HotkeyInputs == {None} \cup {Some(h) : h \in HotkeyStrings}

\* The n-th value returned by uuid::Uuid::new_v4(); "u0" names a preset that
\* was in the file before the program started.
UuidTable == <<"u1", "u2", "u3", "u4", "u5">>
Uuid(n) == UuidTable[n]
IdInputs == {"u0"} \cup {Uuid(n) : n \in 1..MaxAdds}

\* ------------------------------------------------------------- data types

Preset(id, name, config, hotkey, created_at) ==
    [id |-> id, name |-> name, config |-> config, hotkey |-> hotkey,
     created_at |-> created_at]

PresetStore(version, presets) == [version |-> version, presets |-> presets]

\* The version stamp left empty.
PresetStore_default_unversioned == PresetStore("", <<>>)

PresetStore_default == PresetStore("1.0", <<>>)

\* Result<T, String>: val holds the value in a one-element sequence.
Ok(v) == [ok |-> TRUE, err |-> "", val |-> <<v>>]
Err(e) == [ok |-> FALSE, err |-> e, val |-> <<>>]
Unit == "()"

\* ----------------------------------------------------- JSON text (tokens)
\* The file content is a sequence of tokens <<class, text>>: punctuation,
\* object keys, string literals and null.

Tok(c, t) == <<c, t>>
P(t) == Tok("punct", t)
K(t) == Tok("key", t)
S(t) == Tok("string", t)
JNull == Tok("null", "null")

ser_option(o) == IF o = None THEN JNull ELSE S(o[1])

ser_preset(p) ==
    << P("{"), K("id"), S(p.id), K("name"), S(p.name), K("config"), S(p.config),
       K("hotkey"), ser_option(p.hotkey), K("created_at"), S(p.created_at), P("}") >>

PresetTokens == 12

RECURSIVE ser_presets(_)
ser_presets(ps) ==
    IF ps = <<>> THEN <<>> ELSE ser_preset(Head(ps)) \o ser_presets(Tail(ps))

\* serde_json::to_string_pretty(&store): fields in declaration order.
to_string_pretty(store) ==
    << P("{"), K("version"), S(store.version), K("presets"), P("[") >>
    \o ser_presets(store.presets) \o << P("]"), P("}") >>

IsString(t) == t[1] = "string"

de_option(t) == IF t = JNull THEN None ELSE Some(t[2])

\* One preset object at tokens i .. i+PresetTokens-1 of text.
preset_at_ok(text, i) ==
    /\ i + PresetTokens - 1 <= Len(text)
    /\ text[i] = P("{")
    /\ text[i + 1] = K("id") /\ IsString(text[i + 2])
    /\ text[i + 3] = K("name") /\ IsString(text[i + 4])
    /\ text[i + 5] = K("config") /\ IsString(text[i + 6])
    /\ text[i + 7] = K("hotkey") /\ (IsString(text[i + 8]) \/ text[i + 8] = JNull)
    /\ text[i + 9] = K("created_at") /\ IsString(text[i + 10])
    /\ text[i + 11] = P("}")

\* The name and config members read into each other's field.
preset_at_swapped(text, i) ==
    Preset(text[i + 2][2], text[i + 6][2], text[i + 4][2], de_option(text[i + 8]),
           text[i + 10][2])

preset_at(text, i) ==
    Preset(text[i + 2][2], text[i + 4][2], text[i + 6][2], de_option(text[i + 8]),
           text[i + 10][2])

\* The presets array from token i on: Ok(list) when the array and the object
\* close properly and nothing follows, Err otherwise.
RECURSIVE de_presets(_, _, _)
de_presets(text, i, acc) ==
    IF i > Len(text) THEN Err("EOF while parsing")
    ELSE IF text[i] = P("]")
         THEN IF i + 1 = Len(text) /\ text[i + 1] = P("}")
              THEN Ok(acc)
              ELSE Err("trailing characters")
         ELSE IF preset_at_ok(text, i)
              THEN de_presets(text, i + PresetTokens, Append(acc, preset_at(text, i)))
              ELSE Err("expected value")

\* serde_json::from_str::<PresetStore>(&content)
from_str(text) ==
    IF /\ Len(text) >= 5
       /\ text[1] = P("{")
       /\ text[2] = K("version") /\ IsString(text[3])
       /\ text[4] = K("presets") /\ text[5] = P("[")
    THEN LET r == de_presets(text, 6, <<>>)
         IN IF r.ok THEN Ok(PresetStore(text[3][2], r.val[1])) ELSE r
    ELSE Err("expected value")


\* ------------------------------------------------------------------ state

VARIABLES
    file,       \* ~/.config/dpui/presets.json: [exists, readable, text]
    next_uuid,  \* how many uuids have been generated
    calls,      \* how many commands have been invoked
    pc,         \* per caller: where its command stands
    call,       \* per caller: the command and its arguments
    store,      \* per caller: the command's local `store`
    ret,        \* per caller: the command's return value (pending until "done")
    pre_save,   \* per caller: the file as it was when the command's fs::write began
    prev,       \* the last preset command that returned: [op, id, ret, pre]
    registered, \* the global-shortcut table: a set of [shortcut, preset_id] handlers
    hk_calls,   \* how many hotkey commands have been invoked
    emitted,    \* the last event emitted to the frontend: [event, payload]
    report,     \* the lines `displayplacer list` printed, as the tool composed them
    parsed,     \* what parse_displayplacer_output made of them
    arg,        \* a parser function called on its own: [fn, text]
    result,     \* what that function returned
    tray,       \* the tray icon "main": None, or Some(menu)
    window,     \* the main window: "visible" or "hidden"
    running     \* FALSE once the application has exited

storeVars == <<file, next_uuid, calls, pc, call, store, ret, pre_save, prev>>

hotkeyVars == <<registered, hk_calls, emitted>>

parseVars == <<report, parsed, arg, result>>

trayVars == <<tray, window, running>>

vars == <<storeVars, hotkeyVars, parseVars, trayVars>>

AbsentFile == [exists |-> FALSE, readable |-> TRUE, text |-> <<>>]
TextFile(text) == [exists |-> TRUE, readable |-> TRUE, text |-> text]

NoCall == [op |-> "none", id |-> "", name |-> None, config |-> None, hotkey |-> None]
NoPrev == [op |-> "none", id |-> "", ret |-> Err("none"), pre |-> AbsentFile]

\* A store written by an earlier run of the program (format version "0.9").
LegacyStore == PresetStore("0.9", << Preset("u0", "Home", "cfgA", Some("Cmd+1"), "t0") >>)

\* Text no JSON parser accepts (a hand-edited or damaged file).
GarbageText == << Tok("garbage", "#") >>

InitFiles ==
    { AbsentFile,
      TextFile(GarbageText),
      TextFile(to_string_pretty(LegacyStore)),
      [TextFile(to_string_pretty(LegacyStore)) EXCEPT !.readable = FALSE] }

NoEvent == [event |-> "", payload |-> ""]

\* initialize_default_hotkeys(): called from setup; registers nothing.
initialize_default_hotkeys == registered = {}

\* No report of the displayplacer tool has been read, none parsed.
NoReport == <<>>
NotParsed == Err("not parsed")

\* No parser function has been called on its own, none has returned.
NoArg == [fn |-> "none", text |-> ""]
NotCalled == Err("not called")

\* A menu item: its id and, for a submenu, the items below it.
MenuItem(id) == [id |-> id, items |-> <<>>]
Separator == [id |-> "separator", items |-> <<>>]
Submenu(id, items) == [id |-> id, items |-> items]

\* create_presets_submenu(app): "Quick Presets" with its one item.
create_presets_submenu == Submenu("presets", << MenuItem("manage_presets") >>)

\* create_tray_menu(app)
create_tray_menu ==
    << MenuItem("show_hide"), Separator, create_presets_submenu, Separator,
       MenuItem("refresh"), Separator, MenuItem("quit") >>

\* init_system_tray(app), called from setup: the tray icon "main" is built
\* with the menu; the main window is showing.
InitTray ==
    /\ tray = Some(create_tray_menu)
    /\ window = "visible"
    /\ running = TRUE

InitStore ==
    /\ file \in InitFiles
    /\ next_uuid = 0
    /\ calls = 0
    /\ pc = [p \in Procs |-> "idle"]
    /\ call = [p \in Procs |-> NoCall]
    /\ store = [p \in Procs |-> PresetStore_default]
    /\ ret = [p \in Procs |-> Err("none")]
    /\ pre_save = [p \in Procs |-> AbsentFile]
    /\ prev = NoPrev
    /\ initialize_default_hotkeys
    /\ hk_calls = 0
    /\ emitted = NoEvent

Init ==
    /\ InitStore
    /\ report = NoReport
    /\ parsed = NotParsed
    /\ arg = NoArg
    /\ result = NotCalled
    /\ InitTray

\* ------------------------------------------------------- presets.rs: load

\* A parse failure swallowed: the store starts over empty.
load_presets_or_default ==
    IF ~file.exists THEN Ok(PresetStore_default)
    ELSE IF ~file.readable THEN Err("Failed to read presets")
    ELSE LET r == from_str(file.text)
         IN IF r.ok THEN r ELSE Ok(PresetStore_default)

\* A read failure swallowed: the store starts over empty.
load_presets_unreadable_default ==
    IF ~file.exists \/ ~file.readable THEN Ok(PresetStore_default)
    ELSE LET r == from_str(file.text)
         IN IF r.ok THEN r ELSE Err("Failed to parse presets")

\* load_presets(): the path is ~/.config/dpui/presets.json; the home directory
\* is taken to exist and the config directory to be creatable.
load_presets ==
    IF ~file.exists THEN Ok(PresetStore_default)
    ELSE IF ~file.readable THEN Err("Failed to read presets")
    ELSE LET r == from_str(file.text)
         IN IF r.ok THEN r ELSE Err("Failed to parse presets")

\* The frontend invokes a command on caller p.
Invoke(p, c) ==
    /\ pc[p] = "idle"
    /\ calls < MaxCalls
    /\ calls' = calls + 1
    /\ call' = [call EXCEPT ![p] = c]
    /\ UNCHANGED hk_calls

Finish(p, r) ==
    /\ pc' = [pc EXCEPT ![p] = "done"]
    /\ ret' = [ret EXCEPT ![p] = r]

\* The load_presets command.
load_presets_cmd(p) ==
    /\ Invoke(p, [NoCall EXCEPT !.op = "load"])
    /\ Finish(p, load_presets)
    /\ UNCHANGED <<file, next_uuid, store, pre_save, prev, hotkeyVars, parseVars, trayVars>>

\* The predicate inverted: only the matching presets are kept.
retain_matching(ps, id) == SelectSeq(ps, LAMBDA q : q.id = id)

\* Every preset removed.
retain_none(ps, id) == <<>>

\* Only the first preset with the id removed.
retain_first(ps, id) ==
    IF \E i \in 1..Len(ps) : ps[i].id = id
    THEN LET i == CHOOSE i \in 1..Len(ps) :
                     ps[i].id = id /\ \A j \in 1..(i - 1) : ps[j].id # id
         IN SubSeq(ps, 1, i - 1) \o SubSeq(ps, i + 1, Len(ps))
    ELSE ps

\* The presets kept, in the opposite order.
retain_reversed(ps, id) ==
    LET kept == SelectSeq(ps, LAMBDA q : q.id # id)
    IN [i \in 1..Len(kept) |-> kept[Len(kept) + 1 - i]]

\* store.presets.retain(|p| p.id != id)
retain(ps, id) == SelectSeq(ps, LAMBDA q : q.id # id)

\* The first preset taken when none has the id.
find_or_first(ps, id) ==
    IF \E i \in 1..Len(ps) : ps[i].id = id
    THEN CHOOSE i \in 1..Len(ps) :
            /\ ps[i].id = id
            /\ \A j \in 1..(i - 1) : ps[j].id # id
    ELSE IF Len(ps) > 0 THEN 1 ELSE 0

\* store.presets.iter_mut().find(|p| p.id == id): the index of the first match, 0 if none.
find(ps, id) ==
    IF \E i \in 1..Len(ps) : ps[i].id = id
    THEN CHOOSE i \in 1..Len(ps) :
            /\ ps[i].id = id
            /\ \A j \in 1..(i - 1) : ps[j].id # id
    ELSE 0

\* The hotkey assigned whether or not one was given.
apply_update_unconditional(q, name, config, hotkey) ==
    [q EXCEPT !.name = IF name # None THEN name[1] ELSE @,
              !.config = IF config # None THEN config[1] ELSE @,
              !.hotkey = hotkey]

\* The update also stamps the preset with a new creation time.
apply_update_restamp(q, name, config, hotkey) ==
    [q EXCEPT !.name = IF name # None THEN name[1] ELSE @,
              !.config = IF config # None THEN config[1] ELSE @,
              !.hotkey = IF hotkey # None THEN hotkey ELSE @,
              !.created_at = "t1"]

\* The three conditional assignments of update_preset.
apply_update(q, name, config, hotkey) ==
    [q EXCEPT !.name = IF name # None THEN name[1] ELSE @,
              !.config = IF config # None THEN config[1] ELSE @,
              !.hotkey = IF hotkey # None THEN hotkey ELSE @]

\* The new preset put in front of the list.
push_front(ps, preset) == <<preset>> \o ps

\* store.presets.push(preset)
push(ps, preset) == Append(ps, preset)

\* add_preset up to the call of save_presets.
add_preset_begin(p, name, config, hotkey, now) ==
    /\ Invoke(p, [op |-> "add", id |-> "", name |-> Some(name), config |-> Some(config),
                  hotkey |-> hotkey])
    /\ LET r == load_presets IN
       IF ~r.ok
       THEN /\ Finish(p, r)
            /\ UNCHANGED <<next_uuid, store>>
       ELSE /\ next_uuid < MaxAdds
            /\ LET preset == Preset(Uuid(next_uuid + 1), name, config, hotkey, now)
               IN /\ store' = [store EXCEPT ![p] =
                                 [r.val[1] EXCEPT !.presets = push(@, preset)]]
                  /\ ret' = [ret EXCEPT ![p] = Ok(preset)]
            /\ next_uuid' = next_uuid + 1
            /\ pc' = [pc EXCEPT ![p] = "create"]
    /\ UNCHANGED <<file, pre_save, prev, hotkeyVars, parseVars, trayVars>>

\* delete_preset up to the call of save_presets.
delete_preset_begin(p, id) ==
    /\ Invoke(p, [NoCall EXCEPT !.op = "delete", !.id = id])
    /\ LET r == load_presets IN
       IF ~r.ok
       THEN /\ Finish(p, r)
            /\ UNCHANGED store
       ELSE /\ store' = [store EXCEPT ![p] =
                           [r.val[1] EXCEPT !.presets = retain(@, id)]]
            /\ ret' = [ret EXCEPT ![p] = Ok(Unit)]
            /\ pc' = [pc EXCEPT ![p] = "create"]
    /\ UNCHANGED <<file, next_uuid, pre_save, prev, hotkeyVars, parseVars, trayVars>>

\* update_preset up to the call of save_presets.
update_preset_begin(p, id, name, config, hotkey) ==
    /\ Invoke(p, [op |-> "update", id |-> id, name |-> name, config |-> config,
                  hotkey |-> hotkey])
    /\ LET r == load_presets IN
       IF ~r.ok
       THEN /\ Finish(p, r)
            /\ UNCHANGED store
       ELSE LET ps == r.val[1].presets
                i == find(ps, id)
            IN IF i = 0
               THEN /\ Finish(p, Err("Preset not found"))
                    /\ UNCHANGED store
               ELSE LET updated_preset == apply_update(ps[i], name, config, hotkey)
                    IN /\ store' = [store EXCEPT ![p] =
                                      [r.val[1] EXCEPT !.presets[i] = updated_preset]]
                       /\ ret' = [ret EXCEPT ![p] = Ok(updated_preset)]
                       /\ pc' = [pc EXCEPT ![p] = "create"]
    /\ UNCHANGED <<file, next_uuid, pre_save, prev, hotkeyVars, parseVars, trayVars>>

\* ------------------------------------------------------- presets.rs: save

\* Writing `data` at offset 0 of a file holding `old`: what `old` has beyond
\* the written length stays.
overwrite(old, data) ==
    IF Len(old) > Len(data) THEN data \o SubSeq(old, Len(data) + 1, Len(old)) ELSE data

\* How much of `data` a failing write_all may have written.
PartialLens(data) == {0, Len(data) \div 2}

\* fs::write, first half: File::create(path) opens the file with
\* O_CREAT | O_TRUNC, or fails and leaves it alone.
fs_write_create(p) ==
    /\ pc[p] = "create"
    /\ pre_save' = [pre_save EXCEPT ![p] = file]
    /\ \/ /\ file' = [file EXCEPT !.exists = TRUE, !.text = <<>>]
          /\ pc' = [pc EXCEPT ![p] = "write_all"]
          /\ UNCHANGED ret
       \/ /\ Finish(p, Err("Failed to write presets"))
          /\ UNCHANGED file
    /\ UNCHANGED <<next_uuid, calls, call, store, prev, hotkeyVars, parseVars, trayVars>>

\* The file opened for appending: the text goes after what the file holds.
fs_write_all_append(p) ==
    /\ pc[p] = "write_all"
    /\ LET content == to_string_pretty(store[p]) IN
       \/ /\ file' = [file EXCEPT !.text = @ \o content]
          /\ pc' = [pc EXCEPT ![p] = "done"]
          /\ UNCHANGED ret
       \/ \E n \in PartialLens(content) :
            /\ file' = [file EXCEPT !.text = @ \o SubSeq(content, 1, n)]
            /\ Finish(p, Err("Failed to write presets"))
    /\ UNCHANGED <<next_uuid, calls, call, store, pre_save, prev, hotkeyVars, parseVars, trayVars>>

\* fs::write, second half: file.write_all(content) writes everything, or
\* fails after writing a part.
fs_write_all(p) ==
    /\ pc[p] = "write_all"
    /\ LET content == to_string_pretty(store[p]) IN
       \/ /\ file' = [file EXCEPT !.text = overwrite(@, content)]
          /\ pc' = [pc EXCEPT ![p] = "done"]
          /\ UNCHANGED ret
       \/ \E n \in PartialLens(content) :
            /\ file' = [file EXCEPT !.text = overwrite(@, SubSeq(content, 1, n))]
            /\ Finish(p, Err("Failed to write presets"))
    /\ UNCHANGED <<next_uuid, calls, call, store, pre_save, prev, hotkeyVars, parseVars, trayVars>>

\* The save_presets command: the frontend hands over a whole store.
save_presets_cmd(p, st) ==
    /\ Invoke(p, [NoCall EXCEPT !.op = "save"])
    /\ store' = [store EXCEPT ![p] = st]
    /\ ret' = [ret EXCEPT ![p] = Ok(Unit)]
    /\ pc' = [pc EXCEPT ![p] = "create"]
    /\ UNCHANGED <<file, next_uuid, pre_save, prev, hotkeyVars, parseVars, trayVars>>

StoreOps == {"load", "add", "delete", "update"}

\* The command's future resolves; the caller may invoke the next command.
Return(p) ==
    /\ pc[p] = "done"
    /\ prev' = IF call[p].op \in StoreOps \cup {"save"}
               THEN [op |-> call[p].op, id |-> call[p].id, ret |-> ret[p],
                     pre |-> pre_save[p]]
               ELSE prev
    /\ pc' = [pc EXCEPT ![p] = "idle"]
    /\ call' = [call EXCEPT ![p] = NoCall]
    /\ store' = [store EXCEPT ![p] = PresetStore_default]
    /\ ret' = [ret EXCEPT ![p] = Err("none")]
    /\ pre_save' = [pre_save EXCEPT ![p] = AbsentFile]
    /\ UNCHANGED <<file, next_uuid, calls, hotkeyVars, parseVars, trayVars>>

\* ---------------------------------------------------------------- hotkeys.rs

\* shortcut_str.parse::<Shortcut>(): tokens are split on '+' and matched
\* without regard to case, so "Cmd+1" and "cmd+1" are the same Shortcut.
parse_shortcut(shortcut_str) ==
    CASE shortcut_str \in {"Cmd+1", "cmd+1"} -> Ok("SUPER+Digit1")
      [] shortcut_str = "Cmd+2" -> Ok("SUPER+Digit2")
      [] OTHER -> Err("Invalid shortcut format")

\* The check left out: every shortcut is taken to be free.
is_registered_never(shortcut) == FALSE

\* app.global_shortcut().is_registered(shortcut)
is_registered(shortcut) == \E r \in registered : r.shortcut = shortcut

\* The operating system holds a registration of the combination.
os_registered(shortcut) == \E r \in registered : r.shortcut = shortcut

\* The frontend invokes a hotkey command on caller p.
HotkeyInvoke(p, c) ==
    /\ pc[p] = "idle"
    /\ hk_calls < MaxHotkeyCalls
    /\ hk_calls' = hk_calls + 1
    /\ call' = [call EXCEPT ![p] = c]
    /\ UNCHANGED calls

\* register_preset_hotkey up to the call of on_shortcut: the parse and the
\* is_registered check.
register_preset_hotkey_begin(p, preset_id, shortcut_str) ==
    /\ HotkeyInvoke(p, [NoCall EXCEPT !.op = "register", !.id = preset_id,
                                       !.hotkey = Some(shortcut_str)])
    /\ LET s == parse_shortcut(shortcut_str) IN
       IF ~s.ok THEN Finish(p, s)
       ELSE IF is_registered(s.val[1]) THEN Finish(p, Err("Shortcut is already in use"))
       ELSE /\ pc' = [pc EXCEPT ![p] = "on_shortcut"]
            /\ UNCHANGED ret
    /\ UNCHANGED <<file, next_uuid, store, pre_save, prev, registered, emitted, parseVars, trayVars>>

\* shortcuts.on_shortcut(shortcut, handler) and the rest of
\* register_preset_hotkey.  The plugin registers the combination with the
\* operating system, which refuses one that is already registered (and may
\* refuse any other); on success the handler is stored and the
\* "hotkey-registered" event emitted.
register_preset_hotkey_on_shortcut(p) ==
    /\ pc[p] = "on_shortcut"
    /\ LET shortcut == parse_shortcut(call[p].hotkey[1]).val[1] IN
       \/ /\ ~os_registered(shortcut)
          /\ registered' = registered \cup
                             {[shortcut |-> shortcut, preset_id |-> call[p].id]}
          /\ emitted' = [event |-> "hotkey-registered", payload |-> call[p].id]
          /\ Finish(p, Ok(Unit))
       \/ /\ Finish(p, Err("Failed to register shortcut"))
          /\ UNCHANGED <<registered, emitted>>
    /\ UNCHANGED <<file, next_uuid, calls, call, store, pre_save, prev, hk_calls, parseVars, trayVars>>

\* The handler left in place, success reported all the same.
unregister_hotkey_keeps_handler(p, shortcut_str) ==
    /\ HotkeyInvoke(p, [NoCall EXCEPT !.op = "unregister", !.hotkey = Some(shortcut_str)])
    /\ LET s == parse_shortcut(shortcut_str) IN
       IF ~s.ok
       THEN /\ Finish(p, s)
            /\ UNCHANGED registered
       ELSE \/ /\ registered' = registered
               /\ Finish(p, Ok(Unit))
            \/ /\ Finish(p, Err("Failed to unregister shortcut"))
               /\ UNCHANGED registered
    /\ UNCHANGED <<file, next_uuid, store, pre_save, prev, emitted, parseVars, trayVars>>

\* unregister_hotkey: the plugin removes the shortcut's handler; for a
\* shortcut it does not hold, the operating system's answer decides.
unregister_hotkey(p, shortcut_str) ==
    /\ HotkeyInvoke(p, [NoCall EXCEPT !.op = "unregister", !.hotkey = Some(shortcut_str)])
    /\ LET s == parse_shortcut(shortcut_str) IN
       IF ~s.ok
       THEN /\ Finish(p, s)
            /\ UNCHANGED registered
       ELSE \/ /\ registered' = {r \in registered : r.shortcut # s.val[1]}
               /\ Finish(p, Ok(Unit))
            \/ /\ Finish(p, Err("Failed to unregister shortcut"))
               /\ UNCHANGED registered
    /\ UNCHANGED <<file, next_uuid, store, pre_save, prev, emitted, parseVars, trayVars>>

\* unregister_all_hotkeys
unregister_all_hotkeys(p) ==
    /\ HotkeyInvoke(p, [NoCall EXCEPT !.op = "unregister_all"])
    /\ \/ /\ registered' = {}
          /\ Finish(p, Ok(Unit))
       \/ /\ Finish(p, Err("Failed to unregister all shortcuts"))
          /\ UNCHANGED registered
    /\ UNCHANGED <<file, next_uuid, store, pre_save, prev, emitted, parseVars, trayVars>>

\* is_hotkey_available
is_hotkey_available(p, shortcut_str) ==
    /\ HotkeyInvoke(p, [NoCall EXCEPT !.op = "is_available", !.hotkey = Some(shortcut_str)])
    /\ LET s == parse_shortcut(shortcut_str) IN
       IF ~s.ok THEN Finish(p, s) ELSE Finish(p, Ok(~is_registered(s.val[1])))
    /\ UNCHANGED <<file, next_uuid, store, pre_save, prev, registered, emitted, parseVars, trayVars>>

\* The user presses a registered combination: each handler registered for it
\* (the closure of register_preset_hotkey) emits "apply-preset-hotkey".
shortcut_pressed(shortcut) ==
    /\ \E r \in registered :
         /\ r.shortcut = shortcut
         /\ emitted' = [event |-> "apply-preset-hotkey", payload |-> r.preset_id]
    /\ UNCHANGED <<storeVars, registered, hk_calls, parseVars, trayVars>>

\* ------------------------------------------------- displayplacer.rs: strings
\* Text is a TLA+ string; its i-th character is SubSeq(s, i, i).

char_at(s, i) == SubSeq(s, i, i)

\* str::contains(pat)
contains(s, pat) ==
    \E i \in 0..(Len(s) - Len(pat)) : SubSeq(s, i + 1, i + Len(pat)) = pat

\* str::starts_with(pat)
starts_with(s, pat) == Len(s) >= Len(pat) /\ SubSeq(s, 1, Len(pat)) = pat

\* str::strip_prefix(pat): Some(rest) when s starts with pat.
strip_prefix(s, pat) ==
    IF starts_with(s, pat) THEN Some(SubSeq(s, Len(pat) + 1, Len(s))) ELSE None

\* Option::unwrap_or
unwrap_or(opt, default) == IF opt = None THEN default ELSE opt[1]

\* char::is_whitespace, for the characters that occur in the tool's output.
is_whitespace(c) == c \in {" ", "\t", "\n", "\r"}

\* str::trim()
RECURSIVE trim_start(_)
trim_start(s) ==
    IF Len(s) > 0 /\ is_whitespace(char_at(s, 1))
    THEN trim_start(SubSeq(s, 2, Len(s)))
    ELSE s

RECURSIVE trim_end(_)
trim_end(s) ==
    IF Len(s) > 0 /\ is_whitespace(char_at(s, Len(s)))
    THEN trim_end(SubSeq(s, 1, Len(s) - 1))
    ELSE s

trim(s) == trim_end(trim_start(s))

\* The pieces of s between the separators, which stand at the positions `at`,
\* empty pieces included: the k-th piece lies between the (k-1)-th and the
\* k-th separator.
split_at(s, at) ==
    LET cut(k) == IF k = 0 THEN 0
                  ELSE IF k > Cardinality(at) THEN Len(s) + 1
                  ELSE CHOOSE i \in at : Cardinality({j \in at : j < i}) = k - 1
    IN [k \in 1..(Cardinality(at) + 1) |-> SubSeq(s, cut(k - 1) + 1, cut(k) - 1)]

\* str::split(ch)
split(s, ch) == split_at(s, {i \in 1..Len(s) : char_at(s, i) = ch})

\* str::split_whitespace(): the non-empty pieces between whitespace.
split_whitespace(s) ==
    SelectSeq(split_at(s, {i \in 1..Len(s) : is_whitespace(char_at(s, i))}),
              LAMBDA piece : Len(piece) > 0)

\* str::lines(): split at "\n", a "\r" before it dropped; no empty line after
\* a final line ending.
lines(s) ==
    LET pieces == split(s, "\n")
        n == Len(pieces)
        kept == IF pieces[n] = "" THEN n - 1 ELSE n
    IN [i \in 1..kept |->
          IF i < n /\ Len(pieces[i]) > 0 /\ char_at(pieces[i], Len(pieces[i])) = "\r"
          THEN SubSeq(pieces[i], 1, Len(pieces[i]) - 1)
          ELSE pieces[i]]

Digits == "0123456789"
is_digit(c) == \E k \in 1..10 : char_at(Digits, k) = c
digit_value(c) == (CHOOSE k \in 1..10 : char_at(Digits, k) = c) - 1

\* i32::MAX
I32Max == 2147483647

\* The digits of s from position i on, accumulated as i32::from_str does: with
\* checked_mul and checked_add for a positive number, checked_mul and
\* checked_sub for a negative one; None on overflow.
RECURSIVE parse_digits(_, _, _, _)
parse_digits(s, i, acc, negative) ==
    IF i > Len(s) THEN Some(acc)
    ELSE LET d == digit_value(char_at(s, i))
             limit == I32Max \div 10
             last == I32Max % 10
         IN IF negative
            THEN IF acc < 0 - limit \/ (acc = 0 - limit /\ d > last + 1)
                 THEN None
                 ELSE parse_digits(s, i + 1, 10 * acc - d, negative)
            ELSE IF acc > limit \/ (acc = limit /\ d > last)
                 THEN None
                 ELSE parse_digits(s, i + 1, 10 * acc + d, negative)

\* str::parse::<i32>(): an optional sign, then one or more digits and nothing
\* else, the value within the range of i32.
parse_i32(s) ==
    LET signed == Len(s) > 0 /\ char_at(s, 1) \in {"+", "-"}
        body == IF signed THEN SubSeq(s, 2, Len(s)) ELSE s
    IN IF Len(body) = 0 \/ \E k \in 1..Len(body) : ~is_digit(char_at(body, k))
       THEN None
       ELSE parse_digits(body, 1, 0, signed /\ char_at(s, 1) = "-")

\* -------------------------------------------------- displayplacer.rs: parser

Display(id, resolution, origin, rotation, enabled) ==
    [id |-> id, resolution |-> resolution, origin |-> origin, rotation |-> rotation,
     enabled |-> enabled]

is_paren(c) == c = "(" \/ c = ")"

\* s.trim_matches(|c| c == '(' || c == ')'): every leading and every trailing
\* parenthesis is removed.
RECURSIVE trim_start_parens(_)
trim_start_parens(s) ==
    IF Len(s) > 0 /\ is_paren(char_at(s, 1))
    THEN trim_start_parens(SubSeq(s, 2, Len(s)))
    ELSE s

RECURSIVE trim_end_parens(_)
trim_end_parens(s) ==
    IF Len(s) > 0 /\ is_paren(char_at(s, Len(s)))
    THEN trim_end_parens(SubSeq(s, 1, Len(s) - 1))
    ELSE s

trim_matches_parens(s) == trim_end_parens(trim_start_parens(s))

\* parse_coordinates(s): Some(<<x, y>>) or None.
parse_coordinates(s) ==
    LET cleaned == trim_matches_parens(s)
        parts == split(cleaned, ",")
    IN IF Len(parts) = 2
       THEN LET x == parse_i32(parts[1])
                y == parse_i32(parts[2])
            IN IF x = None \/ y = None THEN None ELSE Some(<<x[1], y[1]>>)
       ELSE None

\* An origin value that gives no coordinates discards the id read so far.
parse_part_strict(d, part) ==
    IF starts_with(part, "id:")
    THEN [d EXCEPT !.id = unwrap_or(strip_prefix(part, "id:"), "")]
    ELSE IF starts_with(part, "res:")
    THEN [d EXCEPT !.resolution = unwrap_or(strip_prefix(part, "res:"), "")]
    ELSE IF starts_with(part, "origin:")
    THEN LET coords == parse_coordinates(unwrap_or(strip_prefix(part, "origin:"), ""))
         IN IF coords # None THEN [d EXCEPT !.origin = coords[1]] ELSE [d EXCEPT !.id = ""]
    ELSE IF starts_with(part, "degree:")
    THEN [d EXCEPT !.rotation =
            unwrap_or(parse_i32(unwrap_or(strip_prefix(part, "degree:"), "0")), 0)]
    ELSE d

\* One turn of the loop over config.split_whitespace(): d holds the locals
\* id, resolution, origin and rotation.
parse_part(d, part) ==
    IF starts_with(part, "id:")
    THEN [d EXCEPT !.id = unwrap_or(strip_prefix(part, "id:"), "")]
    ELSE IF starts_with(part, "res:")
    THEN [d EXCEPT !.resolution = unwrap_or(strip_prefix(part, "res:"), "")]
    ELSE IF starts_with(part, "origin:")
    THEN LET coords == parse_coordinates(unwrap_or(strip_prefix(part, "origin:"), ""))
         IN IF coords # None THEN [d EXCEPT !.origin = coords[1]] ELSE d
    ELSE IF starts_with(part, "degree:")
    THEN [d EXCEPT !.rotation =
            unwrap_or(parse_i32(unwrap_or(strip_prefix(part, "degree:"), "0")), 0)]
    ELSE d

RECURSIVE parse_parts(_, _, _)
parse_parts(parts, i, d) ==
    IF i > Len(parts) THEN d ELSE parse_parts(parts, i + 1, parse_part(d, parts[i]))

\* The tokens taken by position: the first is the id, then resolution, origin
\* and rotation.
parse_display_string_positional(config) ==
    LET parts == split_whitespace(config)
        value(i, key) == IF i <= Len(parts) THEN unwrap_or(strip_prefix(parts[i], key), "") ELSE ""
        coords == parse_coordinates(value(3, "origin:"))
        id == value(1, "id:")
    IN IF id # ""
       THEN Some(Display(id, value(2, "res:"),
                         IF coords # None THEN coords[1] ELSE <<0, 0>>,
                         unwrap_or(parse_i32(value(4, "degree:")), 0),
                         ~contains(config, "disabled")))
       ELSE None

\* The display taken for disabled only when a token is the word "disabled".
parse_display_string_disabled_token(config) ==
    LET enabled == \A k \in 1..Len(split_whitespace(config)) :
                       split_whitespace(config)[k] # "disabled"
        d == parse_parts(split_whitespace(config), 1,
                         [id |-> "", resolution |-> "", origin |-> <<0, 0>>, rotation |-> 0])
    IN IF d.id # ""
       THEN Some(Display(d.id, d.resolution, d.origin, d.rotation, enabled))
       ELSE None

\* parse_display_string(config): Some(Display) or None.
parse_display_string(config) ==
    LET enabled == ~contains(config, "disabled")
        d == parse_parts(split_whitespace(config), 1,
                         [id |-> "", resolution |-> "", origin |-> <<0, 0>>, rotation |-> 0])
    IN IF d.id # ""
       THEN Some(Display(d.id, d.resolution, d.origin, d.rotation, enabled))
       ELSE None

\* The loop over line.split('"'): displays with what the parts of one
\* invocation line add to it.
RECURSIVE push_parts(_, _, _)
push_parts(parts, i, displays) ==
    IF i > Len(parts) THEN displays
    ELSE IF contains(parts[i], "id:") /\ contains(parts[i], "origin:")
         THEN LET display == parse_display_string(parts[i])
              IN push_parts(parts, i + 1,
                            IF display # None THEN Append(displays, display[1])
                            ELSE displays)
         ELSE push_parts(parts, i + 1, displays)

\* The condition under which a line is taken for the tool's invocation.
is_command_line(line) ==
    /\ starts_with(trim(line), "displayplacer")
    /\ contains(line, "id:")
    /\ contains(line, "origin:")

\* The loop over output.lines(), from line i on.
RECURSIVE scan_lines(_, _, _, _)
scan_lines(ls, i, found_execute_line, displays) ==
    IF i > Len(ls) THEN displays
    ELSE IF contains(ls[i], "Execute the command below")
         THEN scan_lines(ls, i + 1, TRUE, displays)
         ELSE IF found_execute_line /\ is_command_line(ls[i])
              THEN scan_lines(ls, i + 1, found_execute_line,
                              push_parts(split(ls[i], "\""), 1, displays))
              ELSE scan_lines(ls, i + 1, found_execute_line, displays)

\* The check for an empty list left out.
parse_displayplacer_output_allow_empty(output) ==
    Ok(scan_lines(lines(output), 1, FALSE, <<>>))

\* Invocation lines taken from the first line on, marker or not.
parse_displayplacer_output_any_line(output) ==
    LET displays == scan_lines(lines(output), 1, TRUE, <<>>)
    IN IF displays = <<>>
       THEN Err("No displays found in displayplacer output")
       ELSE Ok(displays)

\* parse_displayplacer_output(output)
parse_displayplacer_output(output) ==
    LET displays == scan_lines(lines(output), 1, FALSE, <<>>)
    IN IF displays = <<>>
       THEN Err("No displays found in displayplacer output")
       ELSE Ok(displays)

\* ------------------------------------- displayplacer.rs: the tool's report
\* What `displayplacer list` prints is composed here from a description of its
\* lines, so that the text handed to the parser is real text.

\* The decimal digits of n > 0.
RECURSIVE to_digits(_)
to_digits(n) ==
    IF n < 10 THEN char_at(Digits, n + 1)
    ELSE to_digits(n \div 10) \o char_at(Digits, (n % 10) + 1)

\* An integer as the tool prints it.
to_decimal(n) == IF n < 0 THEN "-" \o to_digits(0 - n) ELSE to_digits(n)

TokenKeys == {"id", "res", "origin", "degree"}

\* One token of a display's segment.
token(d, key) ==
    CASE key = "id" -> "id:" \o d.id
      [] key = "res" -> "res:" \o d.res
      [] key = "origin" -> "origin:(" \o to_decimal(d.x) \o "," \o to_decimal(d.y) \o ")"
      [] key = "degree" -> "degree:" \o to_decimal(d.degree)
      [] key = "origin_text" -> "origin:" \o d.origin_text

RECURSIVE join(_, _, _)
join(pieces, i, sep) ==
    IF i > Len(pieces) THEN ""
    ELSE IF i = Len(pieces) THEN pieces[i]
    ELSE pieces[i] \o sep \o join(pieces, i + 1, sep)

\* A segment: the tokens of display d for the keys listed, in that order.
Segment(d, keys) == [d |-> d, keys |-> keys]
render_segment(seg) == join([i \in 1..Len(seg.keys) |-> token(seg.d, seg.keys[i])], 1, " ")

MarkerText == "Execute the command below to set your screens to the current arrangement:"

MarkerLine == [kind |-> "marker", text |-> MarkerText, segs |-> <<>>]
TextLine(text) == [kind |-> "text", text |-> text, segs |-> <<>>]
\* An invocation line: `text` is what precedes the tool's name.
CommandLine(indent, segs) == [kind |-> "command", text |-> indent, segs |-> segs]

render_line(l) ==
    IF l.kind = "command"
    THEN l.text \o "displayplacer" \o
         join([i \in 1..Len(l.segs) |-> " \"" \o render_segment(l.segs[i]) \o "\""], 1, "")
    ELSE l.text

\* The tool's standard output: every line ends with a line feed.
render(rep) == join([i \in 1..Len(rep) |-> render_line(rep[i]) \o "\n"], 1, "")

DisplayA == [id |-> "A", res |-> "2560x1440", x |-> 0, y |-> 0, degree |-> 0]
DisplayB == [id |-> "B", res |-> "1920x1080", x |-> -1920, y |-> 0, degree |-> 90]
\* A display whose id the tool prints empty.
DisplayNoId == [id |-> "", res |-> "800x600", x |-> 2560, y |-> 0, degree |-> 0]

KeyOrder == <<"id", "res", "origin", "degree">>

\* Every ordering of the four tokens.
KeyOrders ==
    {o \in [1..4 -> TokenKeys] : \A i, j \in 1..4 : o[i] = o[j] => i = j}

\* The marker line and one invocation line with two displays, the tokens of
\* each in any order.
TwoSegmentReports ==
    {<< MarkerLine, CommandLine("", << Segment(pair[1], o1), Segment(pair[2], o2) >>) >> :
        pair \in {<<DisplayA, DisplayB>>, <<DisplayB, DisplayA>>},
        o1 \in KeyOrders, o2 \in KeyOrders}

\* The longest report composed line by line.
MaxLines == 3

\* The lines such a report is made of.
LineInputs ==
    { MarkerLine,
      TextLine("Persistent screen id: A"),
      CommandLine("", << Segment(DisplayA, KeyOrder) >>),
      CommandLine("  ", << Segment(DisplayA, KeyOrder),
                          Segment(DisplayB, <<"id", "res", "degree">>) >>),
      CommandLine("", << Segment(DisplayNoId, KeyOrder) >>),
      CommandLine("", << Segment(DisplayB, <<"id", "res", "degree">>) >>) }

\* Origin values as the tool does not print them.
OddOrigins == {"bad", "", "(1,2,3)", "(5;7)", "(1,)", "(2147483648,0)", "((5,7))"}

\* Display B with the value of its origin token given as text.
DisplayOddOrigin(t) ==
    [id |-> "B", res |-> "1920x1080", x |-> 0, y |-> 0, degree |-> 90, origin_text |-> t]

OddKeyOrder == <<"id", "res", "origin_text", "degree">>

\* The marker line and one invocation line with display A and a display with
\* an odd origin value, in either order.
OddOriginReports ==
    {<< MarkerLine, CommandLine("", << Segment(DisplayA, KeyOrder),
                                       Segment(DisplayOddOrigin(t), OddKeyOrder) >>) >> :
        t \in OddOrigins}
    \cup
    {<< MarkerLine, CommandLine("", << Segment(DisplayOddOrigin(t), OddKeyOrder),
                                       Segment(DisplayA, KeyOrder) >>) >> :
        t \in OddOrigins}

Reports ==
    TwoSegmentReports \cup OddOriginReports
        \cup UNION {[1..n -> LineInputs] : n \in 0..MaxLines}

\* ---------------------------------------------------------- specifications

OptOf(D) == {None} \cup {Some(x) : x \in D}

StoreBegin(p) ==
    \/ load_presets_cmd(p)
    \/ \E name \in Names, config \in Configs, hotkey \in HotkeyInputs, now \in Timestamps :
         add_preset_begin(p, name, config, hotkey, now)
    \/ \E id \in IdInputs : delete_preset_begin(p, id)
    \/ \E id \in IdInputs, name \in OptOf(Names), config \in OptOf(Configs),
          hotkey \in HotkeyInputs :
         update_preset_begin(p, id, name, config, hotkey)

\* Two callers, one command each, interleaved at every file access.
Next ==
    \E p \in Procs :
        \/ StoreBegin(p)
        \/ fs_write_create(p)
        \/ fs_write_all(p)

Spec == Init /\ [][Next]_vars

\* One caller: each command returns before the next is invoked.
SeqNext ==
    \/ StoreBegin("c1")
    \/ fs_write_create("c1")
    \/ fs_write_all("c1")
    \/ Return("c1")

SeqSpec == Init /\ [][SeqNext]_vars

\* A store the frontend may hand to save_presets: two presets with one id.
DuplicateStore ==
    PresetStore("1.0", << Preset("u0", "Home", "cfgA", None, "t0"),
                          Preset("u0", "Work", "cfgA", Some("Cmd+1"), "t0") >>)

\* What the frontend saves: the store it has just loaded, or one of its own.
SaveInputs ==
    {DuplicateStore} \cup
        (IF prev.op = "load" /\ prev.ret.ok THEN {prev.ret.val[1]} ELSE {})

\* One caller of every preset command, save_presets included.
SaveNext ==
    \/ StoreBegin("c1")
    \/ \E st \in SaveInputs : save_presets_cmd("c1", st)
    \/ fs_write_create("c1")
    \/ fs_write_all("c1")
    \/ Return("c1")

SaveSpec == Init /\ [][SaveNext]_vars

\* A store of three presets with different ids, written by an earlier run.
ThreePresetStore ==
    PresetStore("0.9", << Preset(Uuid(1), "Home", "cfgA", None, "t0"),
                          Preset("u0", "Home", "cfgA", Some("Cmd+1"), "t0"),
                          Preset(Uuid(2), "Work", "cfgA", None, "t0") >>)

\* One caller deleting and updating presets of that store.
FrameNext ==
    \/ \E id \in IdInputs : delete_preset_begin("c1", id)
    \/ \E id \in IdInputs, name \in {None, Some("Work")}, hotkey \in {None, Some("Cmd+1")} :
         update_preset_begin("c1", id, name, Some("cfgB"), hotkey)
    \/ fs_write_create("c1")
    \/ fs_write_all("c1")
    \/ Return("c1")

FrameInit ==
    /\ file = TextFile(to_string_pretty(ThreePresetStore))
    /\ next_uuid = 0
    /\ calls = 0
    /\ pc = [p \in Procs |-> "idle"]
    /\ call = [p \in Procs |-> NoCall]
    /\ store = [p \in Procs |-> PresetStore_default]
    /\ ret = [p \in Procs |-> Err("none")]
    /\ pre_save = [p \in Procs |-> AbsentFile]
    /\ prev = NoPrev
    /\ initialize_default_hotkeys
    /\ hk_calls = 0
    /\ emitted = NoEvent
    /\ report = NoReport
    /\ parsed = NotParsed
    /\ arg = NoArg
    /\ result = NotCalled
    /\ InitTray

FrameSpec == FrameInit /\ [][FrameNext]_vars

PresetIdInputs == {"u0", "u1"}
ShortcutInputs == {"Cmd+1", "cmd+1", "Cmd+2", "bad"}
Shortcuts == {"SUPER+Digit1", "SUPER+Digit2"}

HotkeyBegin(p) ==
    \/ \E id \in PresetIdInputs, str \in ShortcutInputs :
         register_preset_hotkey_begin(p, id, str)
    \/ \E str \in ShortcutInputs : unregister_hotkey(p, str)
    \/ unregister_all_hotkeys(p)
    \/ \E str \in ShortcutInputs : is_hotkey_available(p, str)

\* Two callers of the hotkey commands, interleaved, and the user's key presses.
HotkeyNext ==
    \/ \E p \in Procs :
          \/ HotkeyBegin(p)
          \/ register_preset_hotkey_on_shortcut(p)
          \/ Return(p)
    \/ \E shortcut \in Shortcuts : shortcut_pressed(shortcut)

HotkeyInit == Init /\ file = AbsentFile

HotkeySpec == HotkeyInit /\ [][HotkeyNext]_vars

\* get_displays, from the tool's standard output on: the output is parsed.
parse_stdout ==
    /\ parsed = NotParsed
    /\ parsed' = parse_displayplacer_output(render(report))
    /\ UNCHANGED <<storeVars, hotkeyVars, report, arg, result, trayVars>>

ParseNext == parse_stdout

ParseInit ==
    /\ InitStore
    /\ file = AbsentFile
    /\ report \in Reports
    /\ parsed = NotParsed
    /\ arg = NoArg
    /\ result = NotCalled
    /\ InitTray

\* One report of the tool, parsed once.
ParseSpec == ParseInit /\ [][ParseNext]_vars

\* ------------------------------------------------------------ system_tray.rs

\* The ids of the items of a menu the user can click: the plain items of the
\* menu and those of its submenus.
ClickableIds(menu) ==
    {menu[i].id : i \in {k \in 1..Len(menu) : menu[k].items = <<>> /\ menu[k] # Separator}}
    \cup UNION {{menu[i].items[j].id : j \in 1..Len(menu[i].items)} : i \in 1..Len(menu)}

\* The update_tray_presets command: update_tray_menu(app) builds the menu
\* anew and sets it on the tray icon "main", when there is one.
update_tray_presets(p) ==
    /\ running
    /\ Invoke(p, [NoCall EXCEPT !.op = "update_tray"])
    /\ LET menu == create_tray_menu IN
       \/ /\ tray' = IF tray # None THEN Some(menu) ELSE tray
          /\ Finish(p, Ok(Unit))
       \/ /\ tray # None
          /\ Finish(p, Err("Failed to update tray menu"))
          /\ UNCHANGED tray
    /\ UNCHANGED <<file, next_uuid, store, pre_save, prev, hotkeyVars, parseVars,
                   window, running>>

\* The user clicks item `id` of the tray menu: handle_tray_menu_event(app, id).
tray_menu_click(id) ==
    /\ running
    /\ tray # None
    /\ id \in ClickableIds(tray[1])
    /\ CASE id = "show_hide" ->
              /\ window' = IF window = "visible" THEN "hidden" ELSE "visible"
              /\ UNCHANGED <<emitted, running>>
         [] id = "refresh" ->
              /\ emitted' = [event |-> "refresh-displays", payload |-> ""]
              /\ UNCHANGED <<window, running>>
         [] id = "manage_presets" ->
              /\ window' = "visible"
              /\ UNCHANGED <<emitted, running>>
         [] id = "quit" ->
              /\ running' = FALSE
              /\ UNCHANGED <<emitted, window>>
         [] id \notin {"show_hide", "refresh", "manage_presets", "quit"}
               /\ starts_with(id, "preset_") ->
              /\ emitted' = [event |-> "apply-preset-from-tray",
                             payload |-> unwrap_or(strip_prefix(id, "preset_"), "")]
              /\ UNCHANGED <<window, running>>
         [] OTHER -> UNCHANGED <<emitted, window, running>>
    /\ UNCHANGED <<storeVars, registered, hk_calls, parseVars, tray>>

\* The ids a click may carry.
MenuIdInputs ==
    {"show_hide", "refresh", "manage_presets", "quit", "presets"}
        \cup {"preset_" \o id : id \in IdInputs}

\* One caller adding and deleting presets and asking for the tray to be
\* updated, and the user clicking in the tray menu.
TrayNext ==
    \/ \E name \in Names, now \in Timestamps :
          running /\ add_preset_begin("c1", name, "cfgB", None, now)
    \/ \E id \in IdInputs : running /\ delete_preset_begin("c1", id)
    \/ running /\ fs_write_create("c1")
    \/ running /\ fs_write_all("c1")
    \/ running /\ Return("c1")
    \/ update_tray_presets("c1")
    \/ \E id \in MenuIdInputs : tray_menu_click(id)

\* The setup may have failed to build the tray icon.
TrayInit ==
    /\ InitStore
    /\ file \in {AbsentFile, TextFile(to_string_pretty(LegacyStore))}
    /\ report = NoReport
    /\ parsed = NotParsed
    /\ arg = NoArg
    /\ result = NotCalled
    /\ tray \in {None, Some(create_tray_menu)}
    /\ window = "visible"
    /\ running = TRUE

TraySpec == TrayInit /\ [][TrayNext]_vars

\* The tokens a candidate display string is put together from; "" stands for
\* a token that is left out.
IdTokens == {"", "id:A", "id:disabledA"}
OriginTokens == {"", "origin:(0,0)", "origin:bad"}
DegreeTokens == {"degree:0", "degree:90", "degree:45", "degree:-90", "degree:360", "degree:x"}
OtherTokens == {"", "disabled", "enabled:false", "mode:disabled!"}

\* The candidate display strings parse_display_string is called on.
ConfigInputs ==
    {join(SelectSeq(<<i, "res:1x1", o, d, x>>, LAMBDA t : t # ""), 1, " ") :
        i \in IdTokens, o \in OriginTokens, d \in DegreeTokens, x \in OtherTokens}

\* The values parse_coordinates is called on: a body between leading and
\* trailing parentheses, none, one or two of them, the right way or not.
CoordinateBodies ==
    {"0,0", "2560,0", "-1920,0", "+5,-7", "1", "1,2,3", "bad", "1, 2", ",", "",
     "2147483647,-2147483648", "2147483648,0"}
CoordinateInputs ==
    {lead \o body \o trail :
        lead \in {"", "(", "((", ")"}, body \in CoordinateBodies,
        trail \in {"", ")", "))", "("}}

\* parse_display_string called on a candidate display string.
call_parse_display_string ==
    /\ arg.fn = "parse_display_string"
    /\ result = NotCalled
    /\ result' = Ok(parse_display_string(arg.text))
    /\ UNCHANGED <<storeVars, hotkeyVars, report, parsed, arg, trayVars>>

\* parse_coordinates called on the value of an origin token.
call_parse_coordinates ==
    /\ arg.fn = "parse_coordinates"
    /\ result = NotCalled
    /\ result' = Ok(parse_coordinates(arg.text))
    /\ UNCHANGED <<storeVars, hotkeyVars, report, parsed, arg, trayVars>>

FnNext ==
    \/ call_parse_display_string
    \/ call_parse_coordinates

FnInit ==
    /\ InitStore
    /\ file = AbsentFile
    /\ report = NoReport
    /\ parsed = NotParsed
    /\ arg \in {[fn |-> "parse_display_string", text |-> t] : t \in ConfigInputs}
              \cup {[fn |-> "parse_coordinates", text |-> t] : t \in CoordinateInputs}
    /\ result = NotCalled
    /\ InitTray

\* One call of one of the parser's functions.
FnSpec == FnInit /\ [][FnNext]_vars

\* ------------------------------------------------------------ claim helpers

\* What load_presets would return for file f, when it returns a store.
Loadable(f) == ~f.exists \/ (f.readable /\ from_str(f.text).ok)
StoreOf(f) == IF ~f.exists THEN PresetStore_default ELSE from_str(f.text).val[1]

\* The presets in file f with the given id.
PresetsWithId(f, id) ==
    {i \in 1..Len(StoreOf(f).presets) : StoreOf(f).presets[i].id = id}

HasPreset(f, q) == \E i \in 1..Len(StoreOf(f).presets) : StoreOf(f).presets[i] = q

\* Caller p's command `op` has returned.
Returned(p, op) == pc[p] = "done" /\ call[p].op = op

\* This step is caller p invoking a command.
Invokes(p, ops) == pc[p] = "idle" /\ pc'[p] # "idle" /\ call'[p].op \in ops

\* ----------------------------------------------------------------------- C1
\* C1: update_preset on an existing preset with the hotkey given as None or
\* as the empty string clears the binding: the stored preset and the returned
\* preset have no hotkey afterwards.
C1_ExplicitNoneClearsHotkey ==
    \A p \in Procs :
        (Returned(p, "update") /\ ret[p].ok /\ call[p].hotkey \in {None, Some("")})
        => /\ ret[p].val[1].hotkey = None
           /\ Loadable(file)
           /\ \A i \in PresetsWithId(file, call[p].id) :
                StoreOf(file).presets[i].hotkey = None

\* ----------------------------------------------------------------------- C2
\* C2: when save_presets fails, the preset file still holds exactly the
\* content it had before the save started.
C2_FailedSaveLeavesFile ==
    \A p \in Procs :
        (pc[p] = "done" /\ call[p].op \in StoreOps
         /\ ret[p] = Err("Failed to write presets"))
        => file = pre_save[p]

\* ----------------------------------------------------------------------- C3
\* C3: after a successful add_preset, update_preset or delete_preset that
\* changed the set of hotkeys in the store, the registered shortcuts are
\* exactly the hotkeys of the store.
RegisteredShortcuts == {r.shortcut : r \in registered}

PresetSet(f) == {StoreOf(f).presets[i] : i \in 1..Len(StoreOf(f).presets)}

StoreHotkeys(f) == {q.hotkey[1] : q \in {q \in PresetSet(f) : q.hotkey # None}}

StoreShortcuts(f) ==
    {parse_shortcut(h).val[1] : h \in {h \in StoreHotkeys(f) : parse_shortcut(h).ok}}

C3_MutationReconciles ==
    \A p \in Procs :
        (/\ pc[p] = "done" /\ call[p].op \in {"add", "update", "delete"} /\ ret[p].ok
         /\ Loadable(file) /\ Loadable(pre_save[p])
         /\ StoreHotkeys(file) # StoreHotkeys(pre_save[p]))
        => RegisteredShortcuts = StoreShortcuts(file)

\* ----------------------------------------------------------------------- C4
\* C4: every shortcut has at most one registration; a register_preset_hotkey
\* call that finds its shortcut registered returns "already in use" and
\* leaves the registrations as they are.
AtMostOneRegistration ==
    \A r1 \in registered, r2 \in registered : r1.shortcut = r2.shortcut => r1 = r2

RegisterRefused ==
    \A p \in Procs, str \in {"Cmd+1", "cmd+1", "Cmd+2"} :
        (/\ Invokes(p, {"register"})
         /\ call'[p].hotkey = Some(str)
         /\ \E r \in registered : r.shortcut = parse_shortcut(str).val[1])
        => /\ pc'[p] = "done"
           /\ ret'[p] = Err("Shortcut is already in use")
           /\ registered' = registered

Unparsable(f) == f.exists /\ f.readable /\ ~from_str(f.text).ok

C5_UnparsableFileIsKept ==
    [][\A p \in Procs :
          (Invokes(p, StoreOps) /\ Unparsable(file))
          => /\ pc'[p] = "done"
             /\ ret'[p] = Err("Failed to parse presets")
             /\ file' = file]_vars

C5_Witness ==
    \E p \in Procs :
        /\ Returned(p, "add")
        /\ ret[p] = Err("Failed to parse presets")
        /\ file = TextFile(GarbageText)

C7_MissingFileLoadsDefault ==
    [][\A p \in Procs :
          (Invokes(p, {"load"}) /\ ~file.exists)
          => /\ pc'[p] = "done"
             /\ ret'[p].ok
             /\ ret'[p].val[1].version = "1.0"
             /\ Len(ret'[p].val[1].presets) = 0
             /\ file' = file]_vars

C7_Witness ==
    \E p \in Procs : Returned(p, "load") /\ ret[p].ok /\ ~file.exists

\* ----------------------------------------------------------------------- C8
\* C8: two add_preset calls that both load before either writes and both
\* return success lose an addition: the file is what the two writes left
\* (the later one, over the earlier), and it never holds both new presets.
BothAddsReturned(p, q) ==
    /\ p # q
    /\ Returned(p, "add") /\ ret[p].ok
    /\ Returned(q, "add") /\ ret[q].ok

\* Neither call loaded the other's preset.
LoadedBeforeWrites(p, q) ==
    /\ \A i \in 1..Len(store[p].presets) : store[p].presets[i] # ret[q].val[1]
    /\ \A i \in 1..Len(store[q].presets) : store[q].presets[i] # ret[p].val[1]

\* The file is one call's text, or one call's text written over the other's.
LastWriterWins(p, q) ==
    file.text \in { to_string_pretty(store[p]), to_string_pretty(store[q]),
                    overwrite(to_string_pretty(store[p]), to_string_pretty(store[q])),
                    overwrite(to_string_pretty(store[q]), to_string_pretty(store[p])) }

C8_ConcurrentAddsLoseOne ==
    \A p \in Procs, q \in Procs :
        (BothAddsReturned(p, q) /\ LoadedBeforeWrites(p, q))
        => /\ LastWriterWins(p, q)
           /\ ~(Loadable(file) /\ HasPreset(file, ret[p].val[1])
                               /\ HasPreset(file, ret[q].val[1]))

\* Both calls returned success and the file holds only one of the presets.
C8_Witness ==
    \E p \in Procs, q \in Procs :
        /\ BothAddsReturned(p, q)
        /\ Loadable(file)
        /\ HasPreset(file, ret[p].val[1])
        /\ ~HasPreset(file, ret[q].val[1])

\* ----------------------------------------------------------------------- C9
\* C9: when delete_preset(id) and update_preset(id, ..) interleave and both
\* return success, the file is what the two writes left: where the update
\* wrote last the deleted preset is back, where the delete wrote last the
\* update's change is gone.
DeleteAndUpdateReturned(d, u) ==
    /\ Returned(d, "delete") /\ ret[d].ok
    /\ Returned(u, "update") /\ ret[u].ok
    /\ call[d].id = call[u].id

C9_DeleteUpdateRace ==
    \A d \in Procs, u \in Procs :
        DeleteAndUpdateReturned(d, u)
        => /\ LastWriterWins(d, u)
           /\ file.text = to_string_pretty(store[u])
                => (Loadable(file) /\ HasPreset(file, ret[u].val[1]))
           /\ file.text = to_string_pretty(store[d])
                => (Loadable(file) /\ PresetsWithId(file, call[u].id) = {})

\* Both returned success and the deleted preset is in the file (resurrected).
C9_Witness ==
    \E d \in Procs, u \in Procs :
        /\ DeleteAndUpdateReturned(d, u)
        /\ Loadable(file)
        /\ PresetsWithId(file, call[d].id) # {}

\* Both returned success, the update changed the preset, and the file holds
\* no preset with that id (the change is dropped).
C9_WitnessDropped ==
    \E d \in Procs, u \in Procs :
        /\ DeleteAndUpdateReturned(d, u)
        /\ call[u].name = Some("Work")
        /\ Loadable(file)
        /\ PresetsWithId(file, call[d].id) = {}

\* Both returned success and the file is torn: the shorter text of the
\* delete written over the longer text of the update.
C9_WitnessTorn ==
    \E d \in Procs, u \in Procs :
        /\ DeleteAndUpdateReturned(d, u)
        /\ ~Loadable(file)

\* ---------------------------------------------------------------------- C10
\* C10: with one caller, a successful add_preset followed by a successful
\* delete_preset of the returned id leaves the store (version and presets)
\* as it was before the add.
AddThenDelete(p) ==
    /\ Returned(p, "delete") /\ ret[p].ok
    /\ prev.op = "add" /\ prev.ret.ok
    /\ call[p].id = prev.ret.val[1].id

C10_AddThenDeleteRestores ==
    \A p \in Procs :
        AddThenDelete(p)
        => /\ Loadable(file)
           /\ StoreOf(file).version = StoreOf(prev.pre).version
           /\ StoreOf(file).presets = StoreOf(prev.pre).presets

\* The pair ran on a store that held a preset.
C10_Witness ==
    \E p \in Procs :
        /\ AddThenDelete(p)
        /\ Len(StoreOf(prev.pre).presets) > 0

\* ---------------------------------------------------------------------- C11
\* C11: a delete_preset(id) that returns success leaves no preset with that id
\* in the file, however many there were; when no preset had the id the store
\* read back is the one that was there; a second delete of the same id leaves
\* the file text as the first delete left it; and delete_preset fails only
\* with a load or a write failure, never because the id is unknown.

DeleteErrors == {"Failed to read presets", "Failed to parse presets", "Failed to write presets"}

C11_DeleteRemovesAllIdempotent ==
    \A p \in Procs :
        Returned(p, "delete") =>
            IF ret[p].ok
            THEN /\ Loadable(file)
                 /\ PresetsWithId(file, call[p].id) = {}
                 /\ PresetsWithId(pre_save[p], call[p].id) = {}
                        => StoreOf(file) = StoreOf(pre_save[p])
                 /\ (prev.op = "delete" /\ prev.id = call[p].id /\ prev.ret.ok)
                        => file.text = pre_save[p].text
            ELSE ret[p].err \in DeleteErrors

\* A delete has removed two presets that shared the id.
C11_Witness ==
    \E p \in Procs :
        /\ Returned(p, "delete") /\ ret[p].ok
        /\ Cardinality(PresetsWithId(pre_save[p], call[p].id)) = 2
        /\ StoreOf(file).presets = <<>>

\* The same id has been deleted twice in a row, the first time removing a preset.
C11_WitnessSecondDelete ==
    \E p \in Procs :
        /\ Returned(p, "delete") /\ ret[p].ok
        /\ prev.op = "delete" /\ prev.id = call[p].id /\ prev.ret.ok
        /\ PresetsWithId(prev.pre, call[p].id) # {}

\* ---------------------------------------------------------------------- C12
\* C12: when the file can be loaded and holds no preset with the given id,
\* update_preset returns the error "Preset not found" at once: it does not
\* enter save_presets, and the file is what it was.

UpdateOfUnknownId(p) ==
    /\ Invokes(p, {"update"})
    /\ Loadable(file)
    /\ PresetsWithId(file, call'[p].id) = {}

C12_UpdateUnknownIdFails ==
    [][\A p \in Procs :
          UpdateOfUnknownId(p) =>
              /\ pc'[p] = "done"
              /\ ret'[p] = Err("Preset not found")
              /\ file' = file]_vars

\* An update of an id that a non-empty store does not hold has returned.
C12_Witness ==
    \E p \in Procs :
        /\ Returned(p, "update")
        /\ ret[p] = Err("Preset not found")
        /\ Loadable(file) /\ StoreOf(file).presets # <<>>
        /\ PresetsWithId(file, call[p].id) = {}

\* ---------------------------------------------------------------------- C13
\* C13: after a successful update_preset, the returned preset has the given
\* name, config and hotkey wherever one was given (Some) and the value stored
\* before wherever none was given (None), and the file holds that preset at
\* the position of the preset that was updated.

\* The position of the first preset with the id in file f.
FirstWithId(f, id) ==
    CHOOSE i \in PresetsWithId(f, id) : \A j \in PresetsWithId(f, id) : i <= j

C13_UpdateReplacesGivenFields ==
    \A p \in Procs :
        (Returned(p, "update") /\ ret[p].ok) =>
            LET i == FirstWithId(pre_save[p], call[p].id)
                old == StoreOf(pre_save[p]).presets[i]
                new == ret[p].val[1]
            IN /\ PresetsWithId(pre_save[p], call[p].id) # {}
               /\ new.name = (IF call[p].name = None THEN old.name ELSE call[p].name[1])
               /\ new.config = (IF call[p].config = None THEN old.config ELSE call[p].config[1])
               /\ new.hotkey = (IF call[p].hotkey = None THEN old.hotkey ELSE call[p].hotkey)
               /\ Loadable(file)
               /\ Len(StoreOf(file).presets) = Len(StoreOf(pre_save[p]).presets)
               /\ StoreOf(file).presets[i] = new

\* An update that gave a new name and no hotkey: the name is replaced and the
\* binding the preset had is still there.
C13_Witness ==
    \E p \in Procs :
        /\ Returned(p, "update") /\ ret[p].ok
        /\ call[p].name # None /\ call[p].hotkey = None
        /\ LET old == StoreOf(pre_save[p]).presets[FirstWithId(pre_save[p], call[p].id)]
           IN /\ old.name # call[p].name[1]
              /\ old.hotkey # None
              /\ ret[p].val[1].hotkey = old.hotkey
              /\ ret[p].val[1].name = call[p].name[1]
        /\ HasPreset(file, ret[p].val[1])

\* ---------------------------------------------------------------------- C14
\* C14: with one caller, after a successful add_preset the file holds the
\* presets it held before, in the same order, followed by one new preset; the
\* returned record is that preset and carries the given name, config and
\* hotkey.

C14_AddAppendsOne ==
    (Returned("c1", "add") /\ ret["c1"].ok) =>
        LET before == StoreOf(pre_save["c1"]).presets
            after == StoreOf(file).presets
            new == ret["c1"].val[1]
        IN /\ Loadable(file)
           /\ Len(after) = Len(before) + 1
           /\ \A i \in 1..Len(before) : after[i] = before[i]
           /\ after[Len(after)] = new
           /\ new.name = call["c1"].name[1]
           /\ new.config = call["c1"].config[1]
           /\ new.hotkey = call["c1"].hotkey

\* A preset has been added to a store that already held one.
C14_Witness ==
    /\ Returned("c1", "add") /\ ret["c1"].ok
    /\ Len(StoreOf(pre_save["c1"]).presets) >= 1
    /\ Len(StoreOf(file).presets) = Len(StoreOf(pre_save["c1"]).presets) + 1

\* ---------------------------------------------------------------------- C15
\* C15: with one caller issuing add, update and delete calls on a store whose
\* ids are distinct, and Uuid never giving an id twice, the presets in the
\* file always have distinct ids; and a successful update_preset leaves the
\* id and created_at of the preset at every position as they were.

DistinctIds(f) ==
    \A i, j \in 1..Len(StoreOf(f).presets) :
        StoreOf(f).presets[i].id = StoreOf(f).presets[j].id => i = j

UpdateKeepsIdentity(p) ==
    LET before == StoreOf(pre_save[p]).presets
        after == StoreOf(file).presets
    IN /\ Loadable(file)
       /\ Len(after) = Len(before)
       /\ \A i \in 1..Len(before) :
             /\ after[i].id = before[i].id
             /\ after[i].created_at = before[i].created_at
       /\ ret[p].val[1].id = call[p].id

C15_IdsUniqueAndImmutable ==
    /\ Loadable(file) => DistinctIds(file)
    /\ \A p \in Procs : (Returned(p, "update") /\ ret[p].ok) => UpdateKeepsIdentity(p)

\* Two presets are stored, and the update that has just returned changed one.
C15_Witness ==
    \E p \in Procs :
        /\ Returned(p, "update") /\ ret[p].ok
        /\ Len(StoreOf(file).presets) = 2
        /\ StoreOf(file).presets # StoreOf(pre_save[p]).presets

\* ---------------------------------------------------------------------- C16
\* C16: when the file holds a non-empty store written by save_presets, and the
\* store that load_presets returned is handed to save_presets, a successful
\* save leaves the file text identical to what it was, and the presets read
\* back are the loaded ones in the same order.

SavesWhatWasLoaded(p) ==
    /\ Returned(p, "save") /\ ret[p].ok
    /\ prev.op = "load" /\ prev.ret.ok
    /\ store[p] = prev.ret.val[1]
    /\ pre_save[p].exists
    /\ store[p].presets # <<>>

NoDisplaysFound == Err("No displays found in displayplacer output")

\* The positions of the marker lines of a report.
MarkerLines(rep) == {i \in 1..Len(rep) : rep[i].kind = "marker"}

\* The line is an invocation with an id token and an origin token on it.
Qualifies(l) ==
    /\ l.kind = "command"
    /\ \E i \in 1..Len(l.segs) : \E k \in 1..Len(l.segs[i].keys) : l.segs[i].keys[k] = "id"
    /\ \E i \in 1..Len(l.segs) : \E k \in 1..Len(l.segs[i].keys) : l.segs[i].keys[k] = "origin"

\* The positions of the qualifying lines that come after a marker line.
QualifyingAfterMarker(rep) ==
    {i \in 1..Len(rep) : Qualifies(rep[i]) /\ \E m \in MarkerLines(rep) : m < i}

C17_NeverOkEmpty ==
    parsed # NotParsed =>
        /\ parsed.ok => Len(parsed.val[1]) >= 1
        /\ ~parsed.ok => parsed = NoDisplaysFound
        /\ MarkerLines(report) = {} => parsed = NoDisplaysFound
        /\ QualifyingAfterMarker(report) = {} => parsed = NoDisplaysFound

\* A report with the marker line and other lines after it, none of them a
\* qualifying invocation, has been parsed.
C17_Witness ==
    /\ parsed = NoDisplaysFound
    /\ MarkerLines(report) # {}
    /\ \E i \in 1..Len(report) : report[i].kind = "command" /\ \E m \in MarkerLines(report) : m < i
    /\ QualifyingAfterMarker(report) = {}

\* A report with qualifying invocation lines and no marker line has been parsed.
C17_WitnessNoMarker ==
    /\ parsed = NoDisplaysFound
    /\ MarkerLines(report) = {}
    /\ \E i \in 1..Len(report) : Qualifies(report[i])

\* ---------------------------------------------------------------------- C18
\* C18: the result of parse_displayplacer_output is the one its loop gives on
\* the lines after the first marker line alone, read as lines after a marker:
\* no line before the marker adds a display, a well-formed invocation line
\* with id and origin tokens included.

\* The lines of a report after its first marker line; none without a marker.
AfterFirstMarker(rep) ==
    IF MarkerLines(rep) = {} THEN <<>>
    ELSE LET m == CHOOSE i \in MarkerLines(rep) : \A j \in MarkerLines(rep) : i <= j
         IN SubSeq(rep, m + 1, Len(rep))

DisplaysAfterMarker(rep) ==
    scan_lines(lines(render(AfterFirstMarker(rep))), 1, TRUE, <<>>)

C18_LinesBeforeMarkerIgnored ==
    parsed # NotParsed =>
        parsed = (IF DisplaysAfterMarker(report) = <<>>
                  THEN NoDisplaysFound
                  ELSE Ok(DisplaysAfterMarker(report)))

\* A report has been parsed that has a qualifying invocation line before the
\* marker line and one after it: one display is returned.
C18_Witness ==
    /\ parsed.ok
    /\ MarkerLines(report) # {}
    /\ \E i \in 1..Len(report) :
          Qualifies(report[i]) /\ \A m \in MarkerLines(report) : i < m
    /\ QualifyingAfterMarker(report) # {}
    /\ Len(parsed.val[1]) = 1

\* ---------------------------------------------------------------------- C19
\* C19: for a report made of the marker line and one invocation line with two
\* quoted segments, each holding the id, res, origin and degree tokens of a
\* display in some order, the result is the list of exactly those two
\* displays, in the order of the segments, with the fields the tool printed,
\* whatever the order of the tokens within each segment.

\* The Display the tool's description d of an enabled display stands for.
DisplayOf(d) == Display(d.id, d.res, <<d.x, d.y>>, d.degree, TRUE)

HasAllKeys(seg) ==
    Len(seg.keys) = 4 /\ {seg.keys[k] : k \in 1..4} = TokenKeys

IsTwoSegmentReport(rep) ==
    /\ Len(rep) = 2
    /\ rep[1].kind = "marker"
    /\ rep[2].kind = "command"
    /\ Len(rep[2].segs) = 2
    /\ HasAllKeys(rep[2].segs[1]) /\ HasAllKeys(rep[2].segs[2])

C19_TwoSegmentsAnyTokenOrder ==
    (parsed # NotParsed /\ IsTwoSegmentReport(report)) =>
        parsed = Ok(<< DisplayOf(report[2].segs[1].d), DisplayOf(report[2].segs[2].d) >>)

\* Two displays have been returned for segments whose tokens came in another
\* order than id, res, origin, degree: one begins with degree, one with origin.
C19_Witness ==
    /\ parsed.ok
    /\ IsTwoSegmentReport(report)
    /\ report[2].segs[1].keys[1] = "degree" /\ report[2].segs[1].keys[4] = "id"
    /\ report[2].segs[2].keys[1] = "origin"
    /\ report[2].segs[1].d = DisplayB
    /\ Len(parsed.val[1]) = 2
    /\ parsed.val[1][1].origin = <<-1920, 0>> /\ parsed.val[1][1].rotation = 90

\* ---------------------------------------------------------------------- C20
\* C20: on every qualifying invocation line after the marker, each quoted
\* segment with an id token whose id is not empty yields one Display, a
\* segment without origin token included (its origin is (0,0)); segments with
\* an empty id yield nothing. The result is the list of these displays.

HasKey(seg, key) == \E k \in 1..Len(seg.keys) : seg.keys[k] = key

\* The Display a segment stands for, with the defaults for the tokens it lacks.
SegmentDisplay(seg) ==
    Display(seg.d.id,
            IF HasKey(seg, "res") THEN seg.d.res ELSE "",
            IF HasKey(seg, "origin") THEN <<seg.d.x, seg.d.y>> ELSE <<0, 0>>,
            IF HasKey(seg, "degree") THEN seg.d.degree ELSE 0,
            TRUE)

\* The displays of the segments of line l that have a non-empty id.
CandidatesWithId(l) ==
    LET segs == SelectSeq(l.segs, LAMBDA seg : HasKey(seg, "id") /\ seg.d.id # "")
    IN [k \in 1..Len(segs) |-> SegmentDisplay(segs[k])]

RECURSIVE ClaimedDisplays(_, _)
ClaimedDisplays(rep, i) ==
    IF i > Len(rep) THEN <<>>
    ELSE (IF i \in QualifyingAfterMarker(rep) THEN CandidatesWithId(rep[i]) ELSE <<>>)
            \o ClaimedDisplays(rep, i + 1)

C20_EverySegmentWithIdYieldsDisplay ==
    parsed # NotParsed =>
        parsed = (IF ClaimedDisplays(report, 1) = <<>>
                  THEN NoDisplaysFound
                  ELSE Ok(ClaimedDisplays(report, 1)))

\* ---------------------------------------------------------------------- C21
\* C21: whenever parse_display_string returns a Display (the id is not
\* empty), its enabled field is FALSE if the text "disabled" occurs anywhere
\* in the candidate string, inside another token included, and TRUE if it
\* does not, whatever the other tokens are.

ReturnedDisplay ==
    /\ arg.fn = "parse_display_string"
    /\ result # NotCalled
    /\ result.val[1] # None

C21_EnabledIffNoDisabledSubstring ==
    ReturnedDisplay => (result.val[1][1].enabled <=> ~contains(arg.text, "disabled"))

\* A display has been returned as disabled for a string where "disabled" is
\* part of a longer token only.
C21_Witness ==
    /\ ReturnedDisplay
    /\ ~result.val[1][1].enabled
    /\ \A k \in 1..Len(split_whitespace(arg.text)) : split_whitespace(arg.text)[k] # "disabled"

\* A display has been returned as enabled although the string says enabled:false.
C21_WitnessEnabledFalseToken ==
    /\ ReturnedDisplay
    /\ result.val[1][1].enabled
    /\ contains(arg.text, "enabled:false")

\* ---------------------------------------------------------------------- C22
\* C22: every Display that parse_display_string returns has a rotation of 0,
\* 90, 180 or 270 degrees.

QuarterTurns == {0, 90, 180, 270}

C22_RotationIsQuarterTurn ==
    ReturnedDisplay => result.val[1][1].rotation \in QuarterTurns

\* ---------------------------------------------------------------------- C23
\* C23: parse_coordinates returns what the reference returns: with at most
\* one leading "(" and at most one trailing ")" removed, the text is split on
\* ","; the pair of integers is returned exactly when there are two parts
\* and each is a signed integer, and nothing is returned otherwise.

StripOneParenEachSide(s) ==
    LET a == IF Len(s) > 0 /\ char_at(s, 1) = "(" THEN SubSeq(s, 2, Len(s)) ELSE s
    IN IF Len(a) > 0 /\ char_at(a, Len(a)) = ")" THEN SubSeq(a, 1, Len(a) - 1) ELSE a

ReferenceCoordinates(s) ==
    LET parts == split(StripOneParenEachSide(s), ",")
    IN IF Len(parts) = 2 /\ parse_i32(parts[1]) # None /\ parse_i32(parts[2]) # None
       THEN Some(<<parse_i32(parts[1])[1], parse_i32(parts[2])[1]>>)
       ELSE None

C23_CoordinatesAgreeWithReference ==
    (arg.fn = "parse_coordinates" /\ result # NotCalled) =>
        result.val[1] = ReferenceCoordinates(arg.text)

\* ---------------------------------------------------------------------- C24
\* C24: in a report whose invocation line has display A and a display whose
\* origin value gives no coordinates, both displays are returned, in the order
\* of their segments: the one with the odd origin value with origin (0,0) and
\* its other fields as printed, display A exactly as in a report where every
\* origin is well-formed.

IsOddOriginReport(rep) ==
    /\ Len(rep) = 2
    /\ rep[2].kind = "command"
    /\ \E k \in 1..Len(rep[2].segs) : HasKey(rep[2].segs[k], "origin_text")

\* The origin value of the segment gives no coordinates.
MalformedOrigin(seg) ==
    HasKey(seg, "origin_text") /\ parse_coordinates(seg.d.origin_text) = None

\* What the claim has the segment yield.
FallbackDisplay(seg) ==
    IF MalformedOrigin(seg)
    THEN Display(seg.d.id, seg.d.res, <<0, 0>>, seg.d.degree, TRUE)
    ELSE DisplayOf(seg.d)

C24_MalformedOriginFallsBack ==
    (parsed # NotParsed /\ IsOddOriginReport(report)
        /\ \E k \in 1..2 : MalformedOrigin(report[2].segs[k])) =>
        parsed = Ok([k \in 1..2 |-> FallbackDisplay(report[2].segs[k])])

\* A report with a malformed origin value in its first segment has been
\* parsed: two displays, the first at (0,0), the second display A.
C24_Witness ==
    /\ parsed.ok
    /\ IsOddOriginReport(report)
    /\ MalformedOrigin(report[2].segs[1])
    /\ report[2].segs[1].d.origin_text = "(1,2,3)"
    /\ Len(parsed.val[1]) = 2
    /\ parsed.val[1][1].origin = <<0, 0>> /\ parsed.val[1][1].id = "B"
    /\ parsed.val[1][2] = DisplayOf(DisplayA)

\* ---------------------------------------------------------------------- C25
\* C25: in every step of the hotkey commands: a successful unregister_hotkey
\* leaves its shortcut without handler and a successful unregister_all_hotkeys
\* leaves none at all; is_hotkey_available answers true exactly for a shortcut
\* without handler; register_preset_hotkey for a shortcut without handler is
\* not refused as "already in use", and when it succeeds the shortcut's only
\* handler is bound to the preset id just given; and a fire of a shortcut
\* reports a preset id that a handler is bound to at that moment, so never
\* one whose binding was removed.

\* The preset ids a fire of the shortcut would report.
Bound(regs, shortcut) == {r.preset_id : r \in {q \in regs : q.shortcut = shortcut}}

\* Caller p's command returns successfully in this step.
Succeeds(p, op) ==
    pc[p] # "done" /\ pc'[p] = "done" /\ call'[p].op = op /\ ret'[p].ok

UnregisterFrees(p) ==
    /\ Succeeds(p, "unregister") =>
          Bound(registered', parse_shortcut(call'[p].hotkey[1]).val[1]) = {}
    /\ Succeeds(p, "unregister_all") => registered' = {}

AvailableIffFree(p) ==
    Succeeds(p, "is_available") =>
        ret'[p] = Ok(Bound(registered, parse_shortcut(call'[p].hotkey[1]).val[1]) = {})

RegisterBindsNew(p) ==
    /\ (Invokes(p, {"register"}) /\ parse_shortcut(call'[p].hotkey[1]).ok
          /\ Bound(registered, parse_shortcut(call'[p].hotkey[1]).val[1]) = {})
        => pc'[p] = "on_shortcut"
    /\ Succeeds(p, "register") =>
          Bound(registered', parse_shortcut(call'[p].hotkey[1]).val[1]) = {call'[p].id}

FireReportsBound ==
    (emitted' # emitted /\ emitted'.event = "apply-preset-hotkey") =>
        \E t \in Shortcuts : emitted'.payload \in Bound(registered, t)

QuickPresets(menu) ==
    LET i == CHOOSE k \in 1..Len(menu) : menu[k].id = "presets"
    IN {menu[i].items[j].id : j \in 1..Len(menu[i].items)}

C26_TrayReflectsStore ==
    \A p \in Procs :
        (Returned(p, "update_tray") /\ ret[p].ok /\ tray # None /\ Loadable(file)) =>
            {id \in QuickPresets(tray[1]) : starts_with(id, "preset_")}
                = {"preset_" \o q.id : q \in PresetSet(file)}

\* ---------------------------------------------------------------------- C27
\* C27: with one caller, after a successful delete_preset(id) or
\* update_preset(id, ...) the file holds the presets whose id is not id as
\* they were before the call, each with the content it had and in the order
\* they had, and the store's version is the one the file had.

\* The presets of a list whose id is not id, in the order of the list.
OtherPresets(ps, id) == SelectSeq(ps, LAMBDA q : q.id # id)

C27_OtherPresetsAndVersionKept ==
    (Returned("c1", "delete") \/ Returned("c1", "update")) /\ ret["c1"].ok =>
        LET before == StoreOf(pre_save["c1"])
            after == StoreOf(file)
        IN /\ Loadable(file)
           /\ OtherPresets(after.presets, call["c1"].id)
                 = OtherPresets(before.presets, call["c1"].id)
           /\ after.version = before.version

\* The middle one of three presets has been deleted: the file holds the first
\* and the third, in that order, under the version "0.9" it had.
C27_Witness ==
    /\ Returned("c1", "delete") /\ ret["c1"].ok
    /\ StoreOf(pre_save["c1"]) = ThreePresetStore
    /\ call["c1"].id = "u0"
    /\ StoreOf(file).presets = << ThreePresetStore.presets[1], ThreePresetStore.presets[3] >>
    /\ StoreOf(file).version = "0.9"

\* The middle one of three presets has been updated: it is changed, the first
\* and the third are as they were.
C27_WitnessUpdate ==
    /\ Returned("c1", "update") /\ ret["c1"].ok
    /\ StoreOf(pre_save["c1"]) = ThreePresetStore
    /\ call["c1"].id = "u0"
    /\ StoreOf(file).presets[2] # ThreePresetStore.presets[2]
    /\ StoreOf(file).presets[1] = ThreePresetStore.presets[1]
    /\ StoreOf(file).presets[3] = ThreePresetStore.presets[3]
    /\ StoreOf(file).version = "0.9"

====
